---- MODULE Spec2Model ----
(***************************************************************************)
(* Model of the expense tracker dashboard (src/expense-tracker.tsx).       *)
(*                                                                         *)
(* Representation.  A JavaScript string is a sequence of one-character     *)
(* strings, so that trim, split, Number, parseFloat and toFixed are        *)
(* computed character by character.  A JavaScript number that may be NaN   *)
(* is a record [nan, v].  A stored amount is an integer number  *)
(* of hundredths: every amount the program stores comes from               *)
(* parseFloat(x.toFixed(2)) or from a JSON number of the import files of   *)
(* the model, which have at most two fractional digits.  A Date time value *)
(* is a day number: new Date(y, m, d) is local midnight, so two time       *)
(* values compare as their day numbers do.                                 *)
(***************************************************************************)
EXTENDS Integers, Sequences, FiniteSets, TLC

(***************************************************************************)
(* Bounds of the model.                                                    *)
(***************************************************************************)
MaxExpenses == 2      \* addExpense is explored while fewer are stored
MaxCategories == 9    \* addCategory is explored while fewer are stored
MaxShown == 3         \* longest collection the view specification starts from

(***************************************************************************)
(* Strings.                                                                *)
(***************************************************************************)
DigitChars == <<"0", "1", "2", "3", "4", "5", "6", "7", "8", "9">>

IsDigit(c) == \E i \in 1..10 : DigitChars[i] = c

DigitVal(c) == (CHOOSE i \in 1..10 : DigitChars[i] = c) - 1

IsSpace(c) == c \in {" ", "\t", "\n"}

RECURSIVE TrimStart(_)
TrimStart(s) ==
  IF s # <<>> /\ IsSpace(Head(s)) THEN TrimStart(Tail(s)) ELSE s

RECURSIVE TrimEnd(_)
TrimEnd(s) ==
  IF s # <<>> /\ IsSpace(s[Len(s)]) THEN TrimEnd(SubSeq(s, 1, Len(s) - 1)) ELSE s

\* String.prototype.trim
Trim(s) == TrimEnd(TrimStart(s))

\* the longest prefix of s made of decimal digits
RECURSIVE TakeDigits(_)
TakeDigits(s) ==
  IF s # <<>> /\ IsDigit(Head(s)) THEN <<Head(s)>> \o TakeDigits(Tail(s)) ELSE <<>>

\* the value of a sequence of decimal digits (0 for the empty one)
RECURSIVE DigitsVal(_)
DigitsVal(s) ==
  IF s = <<>> THEN 0 ELSE 10 * DigitsVal(SubSeq(s, 1, Len(s) - 1)) + DigitVal(s[Len(s)])

RECURSIVE Pow10(_)
Pow10(k) == IF k = 0 THEN 1 ELSE 10 * Pow10(k - 1)

\* the decimal digits of a natural number
RECURSIVE NatText(_)
NatText(n) ==
  IF n < 10 THEN <<DigitChars[n + 1]>> ELSE NatText(n \div 10) \o <<DigitChars[(n % 10) + 1]>>

\* String.prototype.split(sep) for a one-character separator
RECURSIVE Split(_, _)
Split(s, sep) ==
  IF \E i \in 1..Len(s) : s[i] = sep
  THEN LET i == CHOOSE k \in 1..Len(s) : s[k] = sep /\ \A j \in 1..(k - 1) : s[j] # sep
       IN <<SubSeq(s, 1, i - 1)>> \o Split(SubSeq(s, i + 1, Len(s)), sep)
  ELSE <<s>>

(***************************************************************************)
(* Numbers.                                                                *)
(***************************************************************************)
NaN == [nan |-> TRUE, v |-> 0]

Num(n) == [nan |-> FALSE, v |-> n]

\* Number(s) for the strings of the model: decimal digits with optional
\* surrounding white space ("" converts to 0), anything else is NaN.
Number(s) ==
  LET t == Trim(s)
  IN IF \A i \in 1..Len(t) : IsDigit(t[i]) THEN Num(DigitsVal(t)) ELSE NaN

\* A decimal literal: the number num / 10^scale, or NaN.
DecNaN == [nan |-> TRUE, num |-> 0, scale |-> 0]

\* parseFloat(s): optional white space, optional sign, digits, optional
\* fraction; the longest such prefix is converted, NaN when it has no digit.
\* (Exponents and the literal Infinity do not occur in the model's inputs.)
parseFloat(s) ==
  LET t    == TrimStart(s)
      neg  == t # <<>> /\ Head(t) = "-"
      u    == IF t # <<>> /\ Head(t) \in {"-", "+"} THEN Tail(t) ELSE t
      ip   == TakeDigits(u)
      rest == SubSeq(u, Len(ip) + 1, Len(u))
      fp   == IF rest # <<>> /\ Head(rest) = "." THEN TakeDigits(Tail(rest)) ELSE <<>>
      mag  == DigitsVal(ip \o fp)
  IN IF ip = <<>> /\ fp = <<>>
     THEN DecNaN
     ELSE [nan |-> FALSE, num |-> IF neg THEN 0 - mag ELSE mag, scale |-> Len(fp)]

\* The decimal literals of the model whose nearest IEEE double lies below
\* them (1.005 is stored as 1.00499999999999989...; 0.005 and 0.004 are
\* stored slightly above).  toFixed rounds the stored double, not the literal.
DoubleBelowLiteral == {<<1005, 3>>}

\* Number.prototype.toFixed(2) of the double nearest to d: let n be the
\* integer for which n / 100 - x is as close to zero as possible, the larger
\* n if there are two; the text is n with a point before its last two digits.
toFixed2(d) ==
  LET mag   == IF d.num < 0 THEN 0 - d.num ELSE d.num
      unit  == Pow10(d.scale)
      q     == (mag * 100) \div unit
      r     == (mag * 100) % unit
      n     == IF 2 * r > unit THEN q + 1
               ELSE IF 2 * r < unit THEN q
               ELSE IF <<mag, d.scale>> \in DoubleBelowLiteral THEN q ELSE q + 1
      cents == n % 100
  IN (IF d.num < 0 /\ n # 0 THEN <<"-">> ELSE <<>>)
       \o NatText(n \div 100) \o <<".">>
       \o <<DigitChars[(cents \div 10) + 1], DigitChars[(cents % 10) + 1]>>

\* a decimal literal with at most two fractional digits, in hundredths
Hundredths(d) == d.num * Pow10(2 - d.scale)

(***************************************************************************)
(* Dates.                                                                  *)
(***************************************************************************)
\* days from 1970-01-01 to the civil date (y, m, d), m in 1..12
DaysFromCivil(y, m, d) ==
  LET yy  == IF m <= 2 THEN y - 1 ELSE y
      era == yy \div 400
      yoe == yy - era * 400
      mp  == (m + 9) % 12
      doy == (153 * mp + 2) \div 5 + d - 1
      doe == yoe * 365 + yoe \div 4 - yoe \div 100 + doy
  IN era * 146097 + doe - 719468

\* new Date(y, m, d).getTime() in days: a year in 0..99 means 1900 + year,
\* a month outside 0..11 carries into the year, a day outside the month
\* carries into the neighbouring months; NaN if an argument is NaN.
MakeDate(y, m, d) ==
  IF y.nan \/ m.nan \/ d.nan THEN NaN
  ELSE LET yr == IF y.v >= 0 /\ y.v <= 99 THEN 1900 + y.v ELSE y.v
           ym == yr + (m.v \div 12)
           mn == m.v % 12
       IN Num(DaysFromCivil(ym, mn + 1, 1) + d.v - 1)

\* an absent element of a destructured array is undefined, which converts to NaN
NumberAt(parts, i) == IF i <= Len(parts) THEN Number(parts[i]) ELSE NaN

Minus1(x) == IF x.nan THEN NaN ELSE Num(x.v - 1)

parseDate(d) ==
  LET parts == Split(d, "-")
  IN MakeDate(NumberAt(parts, 1), Minus1(NumberAt(parts, 2)), NumberAt(parts, 3))

\* a seeded fault: the first day of the range is left out
DateGt(a, b) == ~a.nan /\ ~b.nan /\ a.v > b.v

\* a >= b and a <= b on Date objects: false when either time value is NaN
DateGe(a, b) == ~a.nan /\ ~b.nan /\ a.v >= b.v

DateLe(a, b) == ~a.nan /\ ~b.nan /\ a.v <= b.v

(***************************************************************************)
(* String.prototype.localeCompare, for the characters of the model: letters*)
(* compare by alphabet position whatever their case, white space and       *)
(* punctuation sort before digits and digits before letters; strings equal *)
(* up to case differ by the first letter whose case differs, lower case    *)
(* first.                                                                  *)
(***************************************************************************)
LowerChars == <<" ", "-", "0", "1", "2", "3", "4", "5", "6", "7", "8", "9",
                "a", "b", "c", "d", "e", "f", "g", "h", "i", "j", "k", "l", "m",
                "n", "o", "p", "q", "r", "s", "t", "u", "v", "w", "x", "y", "z">>

UpperChars == <<" ", "-", "0", "1", "2", "3", "4", "5", "6", "7", "8", "9",
                "A", "B", "C", "D", "E", "F", "G", "H", "I", "J", "K", "L", "M",
                "N", "O", "P", "Q", "R", "S", "T", "U", "V", "W", "X", "Y", "Z">>

CharRank(c) == CHOOSE i \in 1..Len(LowerChars) : LowerChars[i] = c \/ UpperChars[i] = c

IsUpper(c) == \E i \in 13..Len(UpperChars) : UpperChars[i] = c

RECURSIVE PrimaryCompare(_, _)
PrimaryCompare(a, b) ==
  IF a = <<>> /\ b = <<>> THEN 0
  ELSE IF a = <<>> THEN -1
  ELSE IF b = <<>> THEN 1
  ELSE IF CharRank(Head(a)) < CharRank(Head(b)) THEN -1
  ELSE IF CharRank(Head(a)) > CharRank(Head(b)) THEN 1
  ELSE PrimaryCompare(Tail(a), Tail(b))

RECURSIVE CaseCompare(_, _)
CaseCompare(a, b) ==
  IF a = <<>> \/ b = <<>> THEN 0
  ELSE IF IsUpper(Head(a)) = IsUpper(Head(b)) THEN CaseCompare(Tail(a), Tail(b))
  ELSE IF IsUpper(Head(b)) THEN -1 ELSE 1

localeCompare(a, b) ==
  IF PrimaryCompare(a, b) # 0 THEN PrimaryCompare(a, b) ELSE CaseCompare(a, b)

(***************************************************************************)
(* The filtered and sorted list, and its total.                            *)
(***************************************************************************)
ALL == <<"A", "L", "L">>

SortKeys == {"date", "amount", "category"}

SortDirs == {"asc", "desc"}

\* the comparator handed to list.sort; its result may be NaN
Compare(a, b, key, dir) ==
  LET byDate == IF parseDate(a.date).nan \/ parseDate(b.date).nan THEN NaN
                ELSE Num(parseDate(a.date).v - parseDate(b.date).v)
      cmp == IF key = "date" THEN byDate
             ELSE IF key = "amount" THEN Num(a.amount - b.amount)
             ELSE IF key = "category" THEN Num(localeCompare(a.category, b.category))
             ELSE Num(0)
  IN IF dir = "asc" THEN cmp ELSE IF cmp.nan THEN NaN ELSE Num(0 - cmp.v)

\* Array.prototype.sort treats a NaN comparator result as +0
SortOrder(a, b, key, dir) ==
  LET c == Compare(a, b, key, dir) IN IF c.nan THEN 0 ELSE c.v

\* x put after the last element of the sorted list that is not greater than it
RECURSIVE InsertSorted(_, _, _, _)
InsertSorted(sorted, x, key, dir) ==
  IF sorted # <<>> /\ SortOrder(sorted[Len(sorted)], x, key, dir) > 0
  THEN InsertSorted(SubSeq(sorted, 1, Len(sorted) - 1), x, key, dir) \o <<sorted[Len(sorted)]>>
  ELSE sorted \o <<x>>

\* Array.prototype.sort(comparator): a stable sort, as an insertion sort
RECURSIVE ArraySort(_, _, _)
ArraySort(list, key, dir) ==
  IF list = <<>> THEN <<>>
  ELSE InsertSorted(ArraySort(SubSeq(list, 1, Len(list) - 1), key, dir), list[Len(list)], key, dir)

FilterFrom(list, f) ==
  IF f # <<>> THEN SelectSeq(list, LAMBDA e : DateGe(parseDate(e.date), parseDate(f))) ELSE list

FilterTo(list, t) ==
  IF t # <<>> THEN SelectSeq(list, LAMBDA e : DateLe(parseDate(e.date), parseDate(t))) ELSE list

FilterCategory(list, c) ==
  IF c # ALL THEN SelectSeq(list, LAMBDA e : e.category = c) ELSE list

\* the body of the shown memo, over its dependencies
Query(list, f, t, c, key, dir) ==
  ArraySort(FilterCategory(FilterTo(FilterFrom(list, f), t), c), key, dir)

\* list.reduce((s, e) => s + e.amount, 0)
RECURSIVE SumAmounts(_)
SumAmounts(list) ==
  IF list = <<>> THEN 0 ELSE SumAmounts(SubSeq(list, 1, Len(list) - 1)) + list[Len(list)].amount

(***************************************************************************)
(* Program constants and the inputs of the model.                          *)
(***************************************************************************)
Food == <<"F", "o", "o", "d">>
Transport == <<"T", "r", "a", "n", "s", "p", "o", "r", "t">>
Bills == <<"B", "i", "l", "l", "s">>
Shopping == <<"S", "h", "o", "p", "p", "i", "n", "g">>
Entertainment == <<"E", "n", "t", "e", "r", "t", "a", "i", "n", "m", "e", "n", "t">>
Health == <<"H", "e", "a", "l", "t", "h">>
Education == <<"E", "d", "u", "c", "a", "t", "i", "o", "n">>
Other == <<"O", "t", "h", "e", "r">>

DEFAULT_CATEGORIES ==
  <<Food, Transport, Bills, Shopping, Entertainment, Health, Education, Other>>

\* a category the user adds
Rent == <<"R", "e", "n", "t">>

Sep01 == <<"2", "0", "2", "5", "-", "0", "9", "-", "0", "1">>
Sep02 == <<"2", "0", "2", "5", "-", "0", "9", "-", "0", "2">>

\* a date typed day/month/year, as a browser without a date picker lets the
\* user type it into the date field: split("-") leaves it whole and Number
\* gives NaN
SlashDate == <<"0", "1", "/", "0", "9", "/", "2", "0", "2", "5">>

\* what the date field can hold when addExpense runs
DateTexts == {<<>>, Sep01, SlashDate}

\* new Date().toISOString().slice(0, 10) when the page is opened
Today == Sep01

\* what the amount field can hold when addExpense runs
AmountTexts ==
  { <<>>, <<"0">>, <<"-", "5">>, <<"0", ".", "0", "0", "4">>, <<"1", ".", "0", "0", "5">> }

\* what the user types in the note field: blanks only, or nothing
NoteTexts == {<<>>, <<" ", " ">>}

\* the entries of the category selects the user picks among
SelectTexts == {Food, Rent}

\* what the user types in the new-category field
NewCategoryTexts == {<<" ", " ">>, Food, <<" ", "R", "e", "n", "t", " ">>}

\* the strings uid() returns in the model
UidResults == {<<"k", "1">>, <<"k", "2">>}

Range(s) == {s[i] : i \in 1..Len(s)}

(***************************************************************************)
(* State.                                                                  *)
(***************************************************************************)
VARIABLES
  expenses,    \* useState<Expense[]>
  categories,  \* useState<string[]>
  date,        \* the form's date
  amount,      \* the form's amount, as typed
  category,    \* the form's selected category
  note,        \* the form's note
  from,        \* filter: first day, "" when unset
  to,          \* filter: last day, "" when unset
  catFilter,   \* filter: category, "ALL" when unset
  sortKey,
  sortDir,
  file,        \* the text of the last download of exportJSON, <<>> before the first
  exported,    \* the two collections as they were at that download
  imported     \* the last importJSON: whether one ran, whether it read the last
               \* download, whether it called alert("Invalid file")

form == <<date, amount, category, note>>
view == <<from, to, catFilter, sortKey, sortDir>>
io == <<file, exported>>
vars == <<expenses, categories, form, view, io, imported>>

Init ==
  /\ expenses = <<>>
  /\ categories = DEFAULT_CATEGORIES
  /\ date = Today
  /\ amount = <<>>
  /\ category = DEFAULT_CATEGORIES[1]
  /\ note = <<>>
  /\ from = <<>>
  /\ to = <<>>
  /\ catFilter = ALL
  /\ sortKey = "date"
  /\ sortDir = "desc"
  /\ file = <<>>
  /\ exported = [expenses |-> <<>>, categories |-> <<>>]
  /\ imported = [done |-> FALSE, own |-> FALSE, alert |-> FALSE]

(***************************************************************************)
(* The form.                                                               *)
(***************************************************************************)
setDate(d) ==
  /\ date' = d
  /\ UNCHANGED <<expenses, categories, amount, category, note, view, io, imported>>

setAmount(a) ==
  /\ amount' = a
  /\ UNCHANGED <<expenses, categories, date, category, note, view, io, imported>>

setCategory(c) ==
  /\ c \in Range(categories)
  /\ category' = c
  /\ UNCHANGED <<expenses, categories, date, amount, note, view, io, imported>>

setNote(n) ==
  /\ note' = n
  /\ UNCHANGED <<expenses, categories, date, amount, category, view, io, imported>>

(***************************************************************************)
(* The ledger.                                                             *)
(***************************************************************************)
\* Math.random().toString(36).slice(2) + Date.now().toString(36): a string
\* drawn without looking at the collection
uid == UidResults

\* the guard of addExpense
Rejected(d, a, c) ==
  LET amt == parseFloat(a)
  IN d = <<>> \/ amt.nan \/ amt.num <= 0 \/ c = <<>>

\* parseFloat(amt.toFixed(2))
Rounded(a) == Hundredths(parseFloat(toFixed2(parseFloat(a))))

NewExpense(id, d, a, c, n) ==
  [id |-> id, date |-> d, amount |-> Rounded(a), category |-> c, note |-> Trim(n)]

addExpense ==
  \/ /\ Rejected(date, amount, category)
     /\ UNCHANGED <<expenses, categories, form, view, io, imported>>
  \/ /\ ~Rejected(date, amount, category)
     /\ Len(expenses) < MaxExpenses
     /\ \E id \in uid : expenses' = <<NewExpense(id, date, amount, category, note)>> \o expenses
     /\ amount' = <<>>
     /\ note' = <<>>
     /\ UNCHANGED <<categories, date, category, view, io, imported>>

\* a seeded fault: the filter keeps the transaction it should drop
WithoutOthers(list, id) == SelectSeq(list, LAMBDA e : e.id = id)

\* prev.filter((e) => e.id !== id)
Without(list, id) == SelectSeq(list, LAMBDA e : e.id # id)

removeExpense(id) ==
  /\ expenses' = Without(expenses, id)
  /\ UNCHANGED <<categories, form, view, io, imported>>

\* confirm("Delete ALL expenses?") answers either way
clearAll ==
  \E confirmed \in BOOLEAN :
    /\ expenses' = IF confirmed THEN <<>> ELSE expenses
    /\ UNCHANGED <<categories, form, view, io, imported>>

\* a seeded fault: the name is appended without asking whether the list holds it
addCategoryUnchecked(newCat) ==
  LET c == Trim(newCat)
  IN \/ /\ c = <<>>
        /\ UNCHANGED <<expenses, categories, form, view, io, imported>>
     \/ /\ c # <<>>
        /\ Len(categories) < MaxCategories
        /\ categories' = categories \o <<c>>
        /\ category' = c
        /\ UNCHANGED <<expenses, date, amount, note, view, io, imported>>

addCategory(newCat) ==
  LET c == Trim(newCat)
  IN \/ /\ c = <<>> \/ c \in Range(categories)
        /\ UNCHANGED <<expenses, categories, form, view, io, imported>>
     \/ /\ c # <<>> /\ c \notin Range(categories)
        /\ Len(categories) < MaxCategories
        /\ categories' = categories \o <<c>>
        /\ category' = c
        /\ UNCHANGED <<expenses, date, amount, note, view, io, imported>>

(***************************************************************************)
(* The view.                                                               *)
(***************************************************************************)
shown == Query(expenses, from, to, catFilter, sortKey, sortDir)

total == SumAmounts(shown)

setFrom(d) ==
  /\ from' = d
  /\ UNCHANGED <<expenses, categories, form, to, catFilter, sortKey, sortDir, io, imported>>

setTo(d) ==
  /\ to' = d
  /\ UNCHANGED <<expenses, categories, form, from, catFilter, sortKey, sortDir, io, imported>>

setCatFilter(c) ==
  /\ c = ALL \/ c \in Range(categories)
  /\ catFilter' = c
  /\ UNCHANGED <<expenses, categories, form, from, to, sortKey, sortDir, io, imported>>

setSortKey(k) ==
  /\ sortKey' = k
  /\ UNCHANGED <<expenses, categories, form, from, to, catFilter, sortDir, io, imported>>

toggleSortDir ==
  /\ sortDir' = IF sortDir = "asc" THEN "desc" ELSE "asc"
  /\ UNCHANGED <<expenses, categories, form, from, to, catFilter, sortKey, io, imported>>

clearFilters ==
  /\ from' = <<>>
  /\ to' = <<>>
  /\ catFilter' = ALL
  /\ UNCHANGED <<expenses, categories, form, sortKey, sortDir, io, imported>>

(***************************************************************************)
(* JSON.  A JSON text is the sequence of its tokens (white space and the   *)
(* separators "," and ":" carry no information and are left out); a string *)
(* token holds its characters, a number token its digits as written, and a *)
(* key token the property name.                                            *)
(* A parsed value is tagged with its kind, so that Array.isArray can be    *)
(* asked of it.                                                            *)
(***************************************************************************)
LBrace == [t |-> "{", s |-> <<>>, name |-> ""]
RBrace == [t |-> "}", s |-> <<>>, name |-> ""]
LBrack == [t |-> "[", s |-> <<>>, name |-> ""]
RBrack == [t |-> "]", s |-> <<>>, name |-> ""]
NullTok == [t |-> "null", s |-> <<>>, name |-> ""]
Key(k) == [t |-> "key", s |-> <<>>, name |-> k]
StrTok(s) == [t |-> "str", s |-> s, name |-> ""]
NumTok(s) == [t |-> "num", s |-> s, name |-> ""]

\* a seeded fault: the number is written without its fraction
NumberTextWhole(n) ==
  (IF n < 0 THEN <<"-">> ELSE <<>>) \o NatText((IF n < 0 THEN 0 - n ELSE n) \div 100)

\* the shortest decimal text of n hundredths, as JSON.stringify writes a number
NumberText(n) ==
  LET mag == IF n < 0 THEN 0 - n ELSE n
      c   == mag % 100
      fr  == IF c = 0 THEN <<>>
             ELSE IF c % 10 = 0 THEN <<".", DigitChars[(c \div 10) + 1]>>
             ELSE <<".", DigitChars[(c \div 10) + 1], DigitChars[(c % 10) + 1]>>
  IN (IF n < 0 THEN <<"-">> ELSE <<>>) \o NatText(mag \div 100) \o fr

\* the property names of an Expense, in the order addExpense writes them
ExpenseKeys == <<"id", "date", "amount", "category", "note">>

\* a property whose value is undefined (an absent note) is left out
RECURSIVE StringifyProps(_, _)
StringifyProps(e, keys) ==
  IF keys = <<>> THEN <<>>
  ELSE LET k == Head(keys)
       IN (IF k \notin DOMAIN e THEN <<>>
           ELSE IF k = "amount" THEN <<Key(k), NumTok(NumberText(e[k]))>>
           ELSE <<Key(k), StrTok(e[k])>>)
          \o StringifyProps(e, Tail(keys))

StringifyExpense(e) == <<LBrace>> \o StringifyProps(e, ExpenseKeys) \o <<RBrace>>

RECURSIVE StringifyExpenses(_)
StringifyExpenses(list) ==
  IF list = <<>> THEN <<>> ELSE StringifyExpense(Head(list)) \o StringifyExpenses(Tail(list))

StringifyStrings(list) == [i \in 1..Len(list) |-> StrTok(list[i])]

\* JSON.stringify({ expenses, categories }, null, 2)
Stringify(exps, cats) ==
  <<LBrace, Key("expenses"), LBrack>> \o StringifyExpenses(exps) \o <<RBrack>>
    \o <<Key("categories"), LBrack>> \o StringifyStrings(cats) \o <<RBrack, RBrace>>

JNull == [k |-> "null", v |-> <<>>]
JStr(s) == [k |-> "string", v |-> s]
JNum(n) == [k |-> "number", v |-> n]
JArr(a) == [k |-> "array", v |-> a]
JObj(o) == [k |-> "object", v |-> o]

Failed(toks) == [ok |-> FALSE, val |-> JNull, rest |-> toks]
Parsed(val, toks) == [ok |-> TRUE, val |-> val, rest |-> toks]

\* the value of a JSON number token, in hundredths
NumberValue(s) == Hundredths(parseFloat(s))

\* JSON.parse by recursive descent: one value off the front of the tokens
RECURSIVE ParseValue(_)
RECURSIVE ParseElements(_, _)
RECURSIVE ParseMembers(_, _)

ParseValue(toks) ==
  IF toks = <<>> THEN Failed(toks)
  ELSE LET h == Head(toks)
       IN IF h.t = "null" THEN Parsed(JNull, Tail(toks))
          ELSE IF h.t = "str" THEN Parsed(JStr(h.s), Tail(toks))
          ELSE IF h.t = "num" THEN Parsed(JNum(NumberValue(h.s)), Tail(toks))
          ELSE IF h.t = "[" THEN ParseElements(Tail(toks), <<>>)
          ELSE IF h.t = "{" THEN ParseMembers(Tail(toks), <<>>)
          ELSE Failed(toks)

\* the elements of an array up to its closing bracket
ParseElements(toks, acc) ==
  IF toks = <<>> THEN Failed(toks)
  ELSE IF Head(toks).t = "]" THEN Parsed(JArr(acc), Tail(toks))
  ELSE LET r == ParseValue(toks)
       IN IF r.ok THEN ParseElements(r.rest, acc \o <<r.val>>) ELSE Failed(toks)

\* the members of an object up to its closing brace; a repeated name keeps
\* its last value
ParseMembers(toks, acc) ==
  IF toks = <<>> THEN Failed(toks)
  ELSE IF Head(toks).t = "}" THEN Parsed(JObj(acc), Tail(toks))
  ELSE IF Head(toks).t # "key" THEN Failed(toks)
  ELSE LET r == ParseValue(Tail(toks))
           k == Head(toks).name
       IN IF r.ok
          THEN ParseMembers(r.rest, [x \in (DOMAIN acc) \cup {k} |-> IF x = k THEN r.val ELSE acc[x]])
          ELSE Failed(toks)

\* JSON.parse(text): throws unless the text is exactly one value
Parse(text) ==
  LET r == ParseValue(text)
  IN IF r.ok /\ r.rest = <<>> THEN r ELSE Failed(text)

\* the JavaScript value a parsed value stands for, as the state holds it
RECURSIVE Plain(_)
Plain(j) ==
  IF j.k = "array" THEN [i \in 1..Len(j.v) |-> Plain(j.v[i])]
  ELSE IF j.k = "object" THEN [x \in DOMAIN j.v |-> Plain(j.v[x])]
  ELSE IF j.k = "null" THEN JNull
  ELSE j.v

\* obj.name: undefined (here: absent) unless obj is an object with that member
HasMember(obj, name) == obj.k = "object" /\ name \in DOMAIN obj.v

\* Array.isArray(obj.name)
IsArrayMember(obj, name) == HasMember(obj, name) /\ obj.v[name].k = "array"

(***************************************************************************)
(* Export and import.                                                      *)
(***************************************************************************)
exportJSON ==
  /\ file' = Stringify(expenses, categories)
  /\ exported' = [expenses |-> expenses, categories |-> categories]
  /\ UNCHANGED <<expenses, categories, form, view, imported>>

\* Reading a member of null throws a TypeError, which the catch block
\* reports like the SyntaxError of JSON.parse.
ImportThrows(r) == ~r.ok \/ r.val.k = "null"

\* a seeded fault: the expenses member replaces the collection whatever it is
ImportedExpensesUnchecked(obj, prev) ==
  IF HasMember(obj, "expenses") THEN Plain(obj.v["expenses"]) ELSE prev

\* if (Array.isArray(obj.expenses)) setExpenses(obj.expenses)
ImportedExpenses(obj, prev) ==
  IF IsArrayMember(obj, "expenses") THEN Plain(obj.v["expenses"]) ELSE prev

\* if (Array.isArray(obj.categories)) setCategories(obj.categories)
ImportedCategories(obj, prev) ==
  IF IsArrayMember(obj, "categories") THEN Plain(obj.v["categories"]) ELSE prev

\* reader.onload for a file of the given text
importJSON(text) ==
  LET r == Parse(text)
  IN /\ UNCHANGED <<form, view, io>>
     /\ imported' = [done |-> TRUE, own |-> (file # <<>> /\ text = file), alert |-> ImportThrows(r)]
     /\ IF ImportThrows(r)
        THEN UNCHANGED <<expenses, categories>>
        ELSE /\ expenses' = ImportedExpenses(r.val, expenses)
             /\ categories' = ImportedCategories(r.val, categories)

(***************************************************************************)
(* The files offered to importJSON besides the last download.              *)
(***************************************************************************)
\* cut off in the middle of the expenses array
TruncatedFile == <<LBrace, Key("expenses"), LBrack>>

\* the JSON text null
NullFile == <<NullTok>>

\* {}
EmptyObjectFile == <<LBrace, RBrace>>

\* { "categories": ["Rent"] }
CategoriesOnlyFile == <<LBrace, Key("categories"), LBrack, StrTok(Rent), RBrack, RBrace>>

\* { "expenses": "none", "categories": ["Rent"] }
ExpensesNotArrayFile ==
  << LBrace, Key("expenses"), StrTok(<<"n", "o", "n", "e">>),
     Key("categories"), LBrack, StrTok(Rent), RBrack, RBrace >>

\* two transactions with the same identifier, one with a negative amount and
\* no note, as a hand-edited or merged backup may hold them
EditedBackup ==
  << [id |-> <<"k", "1">>, date |-> Sep02, amount |-> -500, category |-> Food],
     [id |-> <<"k", "1">>, date |-> Sep01, amount |-> 125, category |-> Transport, note |-> <<"x">>] >>

\* { "expenses": [ ...EditedBackup ] }
ExpensesOnlyFile ==
  <<LBrace, Key("expenses"), LBrack>> \o StringifyExpenses(EditedBackup) \o <<RBrack, RBrace>>

ImportFiles ==
  { TruncatedFile, NullFile, EmptyObjectFile, CategoriesOnlyFile, ExpensesNotArrayFile,
    ExpensesOnlyFile }

(***************************************************************************)
(* The ledger specification: the form and the operations on the two        *)
(* collections.                                                            *)
(***************************************************************************)
Next ==
  \/ \E d \in DateTexts : setDate(d)
  \/ \E a \in AmountTexts : setAmount(a)
  \/ \E c \in SelectTexts : setCategory(c)
  \/ \E n \in NoteTexts : setNote(n)
  \/ addExpense
  \/ \E id \in UidResults : removeExpense(id)
  \/ clearAll
  \/ \E c \in NewCategoryTexts : addCategory(c)
  \/ \E text \in ImportFiles : importJSON(text)

Spec == Init /\ [][Next]_vars

(***************************************************************************)
(* Properties of addExpense.                                               *)
(***************************************************************************)
\* the form holds a non-empty date, an amount that reads as a number above
\* zero, and a non-empty category
ValidInput ==
  /\ date # <<>>
  /\ ~parseFloat(amount).nan
  /\ parseFloat(amount).num > 0
  /\ category # <<>>

\* c hundredths is a multiple of 0.01 nearest to the decimal literal d
NearestHundredth(c, d) ==
  LET unit == Pow10(d.scale)
      diff == c * unit - d.num * 100
  IN 2 * diff <= unit /\ 2 * diff >= 0 - unit

Ids(list) == {list[i].id : i \in 1..Len(list)}

\* C1: for every valid input and every prior collection, addExpense puts
\* exactly one new transaction at the head, with an identifier different from
\* all existing ones and the entered amount rounded to two decimals, and the
\* transactions stored before follow it unchanged and in the same order.
C1_AddPrependsFresh ==
  [][(ValidInput /\ addExpense) =>
       /\ Len(expenses') = Len(expenses) + 1
       /\ Tail(expenses') = expenses
       /\ Head(expenses').id \notin Ids(expenses)
       /\ NearestHundredth(Head(expenses').amount, parseFloat(amount))]_vars

\* the amount field does not hold a number above zero
AmountNotPositive == parseFloat(amount).nan \/ parseFloat(amount).num <= 0

\* the date field holds text that parseDate turns into an Invalid Date
DateUnparseable == date # <<>> /\ parseDate(date).nan

\* C2: addExpense leaves the collection unchanged whenever the date is empty
\* or unparseable, the amount is not a positive number, or the category is
\* empty.
C2_InvalidInputRejected ==
  [][(addExpense /\ (date = <<>> \/ DateUnparseable \/ AmountNotPositive \/ category = <<>>))
       => expenses' = expenses]_vars

\* C3: every stored transaction has an amount above zero.
C3_AmountsPositive == \A i \in 1..Len(expenses) : expenses[i].amount > 0

\* C4: no two stored transactions share an identifier.
C4_IdsUnique ==
  \A i, j \in 1..Len(expenses) : i # j => expenses[i].id # expenses[j].id

\* C5: the transaction a successful addExpense creates has a category that
\* is in the category list at that moment.
C5_CategoryInList ==
  [][(addExpense /\ expenses' # expenses) => Head(expenses').category \in Range(categories)]_vars

(***************************************************************************)
(* Properties of importJSON.                                               *)
(***************************************************************************)
\* What each file of ImportFiles holds, read off its text: whether it is
\* malformed JSON, and for each of the two members whether it is there, whether
\* it is an array, and the array.
Holds(malformed, expensesArray, exps, categoriesArray, cats) ==
  [ malformed |-> malformed,
    expensesArray |-> expensesArray, expenses |-> exps,
    categoriesArray |-> categoriesArray, categories |-> cats ]

Content(text) ==
  IF text = TruncatedFile THEN Holds(TRUE, FALSE, <<>>, FALSE, <<>>)
  ELSE IF text = CategoriesOnlyFile THEN Holds(FALSE, FALSE, <<>>, TRUE, <<Rent>>)
  ELSE IF text = ExpensesNotArrayFile THEN Holds(FALSE, FALSE, <<>>, TRUE, <<Rent>>)
  ELSE IF text = ExpensesOnlyFile THEN Holds(FALSE, TRUE, EditedBackup, FALSE, <<>>)
  ELSE Holds(FALSE, FALSE, <<>>, FALSE, <<>>)

\* C9: importing a malformed file calls alert and leaves both collections as
\* they were; when the content parses, each of expenses and categories
\* replaces its collection if it is present and an array, and the collection
\* is left unchanged otherwise.
C9_ImportFieldByField ==
  [][\A text \in ImportFiles :
       importJSON(text) =>
         IF Content(text).malformed
         THEN imported'.alert /\ expenses' = expenses /\ categories' = categories
         ELSE /\ expenses' = IF Content(text).expensesArray
                             THEN Content(text).expenses ELSE expenses
              /\ categories' = IF Content(text).categoriesArray
                               THEN Content(text).categories ELSE categories]_vars

\* an import failed with an alert and the transactions stored before are
\* still there, under a category list an earlier import had replaced
C9_Witness == imported.alert /\ expenses # <<>> /\ categories = <<Rent>>

(***************************************************************************)
(* The view specification: the filters, the sort and removeExpense over a  *)
(* stored collection.                                                      *)
(***************************************************************************)
K1 == <<"k", "1">>
K2 == <<"k", "2">>
K3 == <<"k", "3">>
K4 == <<"k", "4">>

\* the three records of the development test, and one whose date was typed
\* day/month/year
SampleExpenses ==
  { [id |-> K1, date |-> Sep01, amount |-> 10000, category |-> Food],
    [id |-> K2, date |-> Sep02, amount |-> 5000, category |-> Food],
    [id |-> K3, date |-> Sep02, amount |-> 2000, category |-> Transport],
    [id |-> K4, date |-> SlashDate, amount |-> 5000, category |-> Transport] }

ViewIds == {K1, K2, K3, K4}

FilterDates == {<<>>, Sep01, Sep02, SlashDate}

FilterCategories == {ALL, Food, Transport}

InitView ==
  /\ expenses \in [1..MaxShown -> SampleExpenses]
  /\ categories = DEFAULT_CATEGORIES
  /\ date = Today
  /\ amount = <<>>
  /\ category = DEFAULT_CATEGORIES[1]
  /\ note = <<>>
  /\ from = <<>>
  /\ to = <<>>
  /\ catFilter = ALL
  /\ sortKey = "date"
  /\ sortDir = "desc"
  /\ file = <<>>
  /\ exported = [expenses |-> <<>>, categories |-> <<>>]
  /\ imported = [done |-> FALSE, own |-> FALSE, alert |-> FALSE]

NextView ==
  \/ \E d \in FilterDates : setFrom(d)
  \/ \E d \in FilterDates : setTo(d)
  \/ \E c \in FilterCategories : setCatFilter(c)
  \/ \E k \in SortKeys : setSortKey(k)
  \/ toggleSortDir
  \/ clearFilters
  \/ \E id \in ViewIds : removeExpense(id)

ViewSpec == InitView /\ [][NextView]_vars

(***************************************************************************)
(* Properties of the view.  The filter predicates are stated on the text   *)
(* of a calendar date YYYY-MM-DD, whose order is the order of the numbers  *)
(* YYYYMMDD; a date that is not such a text meets no date predicate.       *)
(***************************************************************************)
IsIsoDate(d) ==
  /\ Len(d) = 10
  /\ d[5] = "-" /\ d[8] = "-"
  /\ \A i \in {1, 2, 3, 4, 6, 7, 9, 10} : IsDigit(d[i])

IsoKey(d) == DigitsVal(<<d[1], d[2], d[3], d[4], d[6], d[7], d[9], d[10]>>)

OnOrAfter(d, f) == IsIsoDate(d) /\ IsIsoDate(f) /\ IsoKey(d) >= IsoKey(f)

\* e meets every predicate that is set
Meets(e, f, t, c) ==
  /\ f # <<>> => OnOrAfter(e.date, f)
  /\ t # <<>> => OnOrAfter(t, e.date)
  /\ c # ALL => e.category = c

\* the positions of the stored transactions that meet the filter
Matching(f, t, c) == {i \in 1..Len(expenses) : Meets(expenses[i], f, t, c)}

RECURSIVE SumAt(_, _)
SumAt(list, positions) ==
  IF positions = {} THEN 0
  ELSE LET i == CHOOSE k \in positions : TRUE
       IN list[i].amount + SumAt(list, positions \ {i})

\* the stored transactions other than those of the given identifier, in order
RECURSIVE Others(_, _)
Others(list, id) ==
  IF list = <<>> THEN <<>>
  ELSE IF Head(list).id = id THEN Others(Tail(list), id)
  ELSE <<Head(list)>> \o Others(Tail(list), id)

\* C6: after removeExpense(id) the query returns no transaction of that
\* identifier, whatever filter and sort are set (the view specification
\* reaches every stored collection under every filter and sort), and the
\* other transactions remain in their previous order; with an identifier
\* that is not stored the collection is unchanged.
C6_RemovedNeverShown ==
  [][\A id \in ViewIds :
       removeExpense(id) =>
         /\ \A after \in {<<expenses', from', to', catFilter', sortKey', sortDir'>>} :
              id \notin Ids(Query(after[1], after[2], after[3], after[4], after[5], after[6]))
         /\ id \notin Ids(expenses')
         /\ expenses' = Others(expenses, id)
         /\ id \notin Ids(expenses) => expenses' = expenses]_vars

\* a transaction was removed and others are still stored and shown
C6_Witness == Len(expenses) < MaxShown /\ shown # <<>>

KeyCompare(a, b, key) ==
  IF key = "date"
  THEN IF IsIsoDate(a.date) /\ IsIsoDate(b.date) THEN IsoKey(a.date) - IsoKey(b.date) ELSE 0
  ELSE IF key = "amount" THEN a.amount - b.amount
  ELSE localeCompare(a.category, b.category)

SameKey(a, b, key) ==
  IF key = "date" THEN a.date = b.date
  ELSE IF key = "amount" THEN a.amount = b.amount
  ELSE a.category = b.category

Count(list, x) == Cardinality({i \in 1..Len(list) : list[i] = x})

\* the stored transactions that meet the filter, in stored order
Filtered == SelectSeq(expenses, LAMBDA e : Meets(e, from, to, catFilter))

\* C8: for every sort key and both directions the query result is a
\* permutation of the filtered transactions, ordered by the key in the chosen
\* direction, and transactions of equal key keep their stored relative order.
C8_SortedStable ==
  /\ Len(shown) = Len(Filtered)
  /\ \A i \in 1..Len(shown) : Count(shown, shown[i]) = Count(Filtered, shown[i])
  /\ \A i, j \in 1..Len(shown) :
       i < j => IF sortDir = "asc"
                THEN KeyCompare(shown[i], shown[j], sortKey) <= 0
                ELSE KeyCompare(shown[i], shown[j], sortKey) >= 0
  /\ \A i \in 1..Len(shown) :
       SelectSeq(shown, LAMBDA e : SameKey(e, shown[i], sortKey))
         = SelectSeq(Filtered, LAMBDA e : SameKey(e, shown[i], sortKey))

(***************************************************************************)
(* The round-trip specification: exportJSON, importJSON of the download    *)
(* and of other files, and the operations that change the collections in   *)
(* between.                                                                *)
(***************************************************************************)
RoundTripAmounts == {<<"0", ".", "0", "0", "4">>, <<"1", "2", ".", "5">>}

RoundTripCategories == {<<" ", "R", "e", "n", "t", " ">>}

RoundTripFiles == {CategoriesOnlyFile, ExpensesOnlyFile}

NextRoundTrip ==
  \/ \E a \in RoundTripAmounts : setAmount(a)
  \/ addExpense
  \/ \E id \in UidResults : removeExpense(id)
  \/ clearAll
  \/ \E c \in RoundTripCategories : addCategory(c)
  \/ exportJSON
  \/ file # <<>> /\ importJSON(file)
  \/ \E text \in RoundTripFiles : importJSON(text)

RoundTripSpec == Init /\ [][NextRoundTrip]_vars

LowerFood == <<"f", "o", "o", "d">>

CategoryNames ==
  { <<>>, <<" ", " ">>, Food, <<" ", "F", "o", "o", "d">>, LowerFood,
    <<" ", "R", "e", "n", "t", " ">>, <<"\t", "R", "e", "n", "t">> }

CategoryAmounts == {<<"1", ".", "0", "0", "5">>}

NextCategory ==
  \/ \E name \in CategoryNames : addCategory(name)
  \/ \E a \in CategoryAmounts : setAmount(a)
  \/ addExpense
  \/ importJSON(CategoriesOnlyFile)

CategorySpec == Init /\ [][NextCategory]_vars

\* the name without the white space around it: the part of the name between
\* two positions such that all outside is white space and neither end is
IsBlank(s) == \A i \in 1..Len(s) : s[i] \in {" ", "\t", "\n"}

Stripped(name) ==
  IF IsBlank(name) THEN <<>>
  ELSE LET i == CHOOSE k \in 1..Len(name) : ~IsBlank(<<name[k]>>) /\ IsBlank(SubSeq(name, 1, k - 1))
           j == CHOOSE k \in 1..Len(name) : ~IsBlank(<<name[k]>>) /\ IsBlank(SubSeq(name, k + 1, Len(name)))
       IN SubSeq(name, i, j)

\* C11: addCategory(name) leaves the category list as it is when the name
\* without the white space around it is empty or is an element of the list
\* (exact match, case included); otherwise the list after it is the list
\* before it followed by that name; the transaction collection is never
\* changed.
C11_AddCategoryFrame ==
  [][\A name \in CategoryNames :
       addCategory(name) =>
         /\ expenses' = expenses
         /\ IF Stripped(name) = <<>> \/ \E i \in 1..Len(categories) : categories[i] = Stripped(name)
            THEN categories' = categories
            ELSE /\ Len(categories') = Len(categories) + 1
                 /\ categories'[Len(categories')] = Stripped(name)
                 /\ \A i \in 1..Len(categories) : categories'[i] = categories[i]]_vars

\* with transactions stored, "food" was appended to a list that holds "Food",
\* and no second "Food" was
C11_Witness ==
  /\ expenses # <<>>
  /\ categories = DEFAULT_CATEGORIES \o <<LowerFood>>
  /\ category = LowerFood

====
